---- MODULE Spec2Model ----
(***************************************************************************)
(* A model of the makeup-homework regrader (src/request.py, src/main.py).  *)
(*                                                                         *)
(* The parts of class PLAPI are modelled each under its own specification *)
(* over the module's one set of variables:                                 *)
(*   SpecApi   api_request           the GET loop with its 502 retries     *)
(*   SpecScan  scan_hw_log           the replay of one student's event log *)
(*   SpecScanQ scan_hw_log           the same on per-question score events *)
(*   Spec      fetch_hw_grade        the fan-out, the collection loop and  *)
(*                                   the blend of the two window scores    *)
(*   SpecRun   fetch_grade           a whole run: the resolution by the    *)
(*                                   main thread, then the workers request *)
(*                                   by request; FairRun adds fairness     *)
(*   SpecAssmt get_assmt             the choice of the assessment          *)
(*                                                                         *)
(* Python values are modelled as follows.  An optional value is a sequence *)
(* of length 0 (None) or 1.  A dict is a function; d[k] = v on a new key   *)
(* enlarges its domain.  A date_iso8601 string is a pair <<local, off>> of *)
(* the wall-clock reading and the hours the zone is behind UTC: strings    *)
(* compare on the reading first, datetime.fromisoformat gives the instant  *)
(* local + off.  Points that the code halves are kept doubled.             *)
(***************************************************************************)
EXTENDS Integers, Sequences, FiniteSets, TLC

VARIABLES
    \* api_request
    api_pc, endpoint, retry_max, retry_cnt, api_trace, api_ret, api_err,
    \* scan_hw_log
    questions, logs, due_date, makeup_due_date, scan_pc, scan_ret,
    \* fetch_hw_grade
    assmt_instances, future, results, done_cnt, done_order, hw_pc, hw_log,
    \* fetch_grade and the threads of one run
    grade_pc, access_rules, call, worker, issued, pl_writers, run_err,
    \* get_assmt
    assmts, name2id, assmt_pc, assmt_input, assmt_ret

api_vars ==
    <<api_pc, endpoint, retry_max, retry_cnt, api_trace, api_ret, api_err>>
scan_vars == <<questions, logs, due_date, makeup_due_date, scan_pc, scan_ret>>
hw_vars ==
    <<assmt_instances, future, results, done_cnt, done_order, hw_pc, hw_log>>
run_vars ==
    <<grade_pc, access_rules, call, worker, issued, pl_writers, run_err>>
assmt_vars == <<assmts, name2id, assmt_pc, assmt_input, assmt_ret>>
vars == <<api_vars, scan_vars, hw_vars, run_vars, assmt_vars>>

(***************************************************************************)
(* Bounds of the model.                                                    *)
(***************************************************************************)
\* the longest event log drawn
MaxLen == 3
\* the most student instances of one assessment
MaxStudents == 3
\* the most student instances of a run whose workers are followed request by
\* request
MaxWorkers == 2
\* the most assessments of a listing
MaxAssmts == 2

(***************************************************************************)
(* Constants of the program.                                               *)
(***************************************************************************)
\* retry_max=5
DefaultRetryMax == 5
\* time.sleep(10)
RetryDelay == 10

(***************************************************************************)
(* Python values.                                                          *)
(***************************************************************************)
None == <<>>
Some(v) == <<v>>

\* a slip: a new dict with the one key, d = {k: v}
DictSet_Fresh(d, k, v) == [x \in {k} |-> v]

\* d[k] = v
DictSet(d, k, v) == [x \in (DOMAIN d) \cup {k} |-> IF x = k THEN v ELSE d[x]]

RECURSIVE SumOver(_, _)
SumOver(d, keys) ==
    IF keys = {} THEN 0
    ELSE LET k == CHOOSE x \in keys : TRUE
         IN  d[k] + SumOver(d, keys \ {k})

\* sum(d.values())
SumValues(d) == SumOver(d, DOMAIN d)

RECURSIVE SumSeq(_)
SumSeq(s) == IF s = <<>> THEN 0 ELSE Head(s) + SumSeq(Tail(s))

(***************************************************************************)
(* Events and timestamps.                                                  *)
(***************************************************************************)
ScoreAssessment == "Score assessment"
ManualGrading == "Manual grading results"
Submission == "Submission"
ScoreQuestion == "Score question"

\* the key of logs.sort: the date_iso8601 strings compared as strings
DateKeyLeq(a, b) == a[1] < b[1] \/ (a[1] = b[1] /\ a[2] <= b[2])

\* datetime.fromisoformat(event["date_iso8601"])
FromIsoformat(d) == d[1] + d[2]

\* logs.sort(key=...): stable, each event goes after the events whose key is
\* not greater than its own
RECURSIVE InsertByDate(_, _)
InsertByDate(sorted, e) ==
    IF sorted = <<>> THEN <<e>>
    ELSE IF DateKeyLeq(Head(sorted).date_iso8601, e.date_iso8601)
         THEN <<Head(sorted)>> \o InsertByDate(Tail(sorted), e)
         ELSE <<e>> \o sorted

RECURSIVE SortFrom(_, _)
SortFrom(sorted, rest) ==
    IF rest = <<>> THEN sorted
    ELSE SortFrom(InsertByDate(sorted, Head(rest)), Tail(rest))

SortLogs(ls) == SortFrom(<<>>, ls)

(***************************************************************************)
(* scan_hw_log.                                                            *)
(***************************************************************************)
\* total_points = sum(q["assessment_question_max_points"] for q in questions)
TotalPoints(qs) ==
    SumSeq([i \in 1..Len(qs) |-> qs[i].assessment_question_max_points])

\* manual_questions, as the key set of the two dicts built from it
ManualQuestions(qs) ==
    {qs[i].question_name : i \in {j \in 1..Len(qs) :
        qs[j].assessment_question_max_manual_points > 0}}

\* the first loop: the last manual points of every question over the whole log
RECURSIVE LastManualFrom(_, _)
LastManualFrom(d, ls) ==
    IF ls = <<>> THEN d
    ELSE LET event == Head(ls)
         IN  LastManualFrom(
                 IF event.event_name = ManualGrading
                 THEN DictSet(d, event.qid, event.points)
                 ELSE d,
                 Tail(ls))

LastManualScore(manual_questions, ls) ==
    LastManualFrom([q \in manual_questions |-> 0], ls)

\* a slip: the correction applied with its signs exchanged
NormalizedTotal_SignsExchanged(cur_total_score, cur_manual_score, last_manual_score) ==
    cur_total_score + SumValues(cur_manual_score) - SumValues(last_manual_score)

\* total_score
NormalizedTotal(cur_total_score, cur_manual_score, last_manual_score) ==
    cur_total_score - SumValues(cur_manual_score) + SumValues(last_manual_score)

\* slips: a cutoff that excludes its own instant
InOrigWindow_Strict(time, due) == time < due
InMakeupWindow_Strict(time, makeup_due) == time < makeup_due

\* time <= due_date, time <= makeup_due_date
InOrigWindow(time, due) == time <= due
InMakeupWindow(time, makeup_due) == time <= makeup_due

\* a slip: the last total of the window instead of its maximum
Improves_Latest(total_score, best) == TRUE

\* a slip: an equal total replaces the score and its date
Improves_OrEqual(total_score, best) == best = None \/ total_score >= best[1]

\* orig_score is None or total_score > orig_score
Improves(total_score, best) == best = None \/ total_score > best[1]

\* a slip: the scores start at 0 instead of None
ReplayStart_Zero(manual_questions) ==
    [cur_total_score |-> 0,
     cur_manual_score |-> [q \in manual_questions |-> 0],
     orig_score |-> Some(0), orig_date |-> None,
     makeup_score |-> Some(0), makeup_date |-> None]

\* the state of the second loop before its first event
ReplayStart(manual_questions) ==
    [cur_total_score |-> 0,
     cur_manual_score |-> [q \in manual_questions |-> 0],
     orig_score |-> None, orig_date |-> None,
     makeup_score |-> None, makeup_date |-> None]

\* one iteration of the second loop
ReplayEvent(st, event, last_manual_score, due, makeup_due) ==
    IF event.event_name \notin {ScoreAssessment, ManualGrading} THEN st
    ELSE
    LET cur_total == IF event.event_name = ScoreAssessment
                     THEN event.points ELSE st.cur_total_score
        cur_manual == IF event.event_name = ManualGrading
                      THEN DictSet(st.cur_manual_score, event.qid, event.points)
                      ELSE st.cur_manual_score
        total_score == NormalizedTotal(cur_total, cur_manual, last_manual_score)
        time == FromIsoformat(event.date_iso8601)
        newOrig == InOrigWindow(time, due) /\ Improves(total_score, st.orig_score)
        newMakeup == InMakeupWindow(time, makeup_due)
                        /\ Improves(total_score, st.makeup_score)
    IN  [cur_total_score |-> cur_total,
         cur_manual_score |-> cur_manual,
         orig_score |-> IF newOrig THEN Some(total_score) ELSE st.orig_score,
         orig_date |-> IF newOrig THEN Some(time) ELSE st.orig_date,
         makeup_score |-> IF newMakeup THEN Some(total_score) ELSE st.makeup_score,
         makeup_date |-> IF newMakeup THEN Some(time) ELSE st.makeup_date]

RECURSIVE ReplayFrom(_, _, _, _, _)
ReplayFrom(st, ls, last_manual_score, due, makeup_due) ==
    IF ls = <<>> THEN st
    ELSE ReplayFrom(ReplayEvent(st, Head(ls), last_manual_score, due, makeup_due),
                    Tail(ls), last_manual_score, due, makeup_due)

\* scan_hw_log on the two fetched lists and the two cutoffs
ScanHwLog(qs, ls, due, makeup_due) ==
    LET sorted == SortLogs(ls)
        manual_questions == ManualQuestions(qs)
        last_manual_score == LastManualScore(manual_questions, sorted)
        st == ReplayFrom(ReplayStart(manual_questions), sorted,
                         last_manual_score, due, makeup_due)
    IN  [orig_score |-> st.orig_score, orig_date |-> st.orig_date,
         makeup_score |-> st.makeup_score, makeup_date |-> st.makeup_date,
         total_points |-> TotalPoints(qs)]

(***************************************************************************)
(* The inputs of scan_hw_log that are drawn.                               *)
(***************************************************************************)
\* date_iso8601 strings: the readings 1, 2 and 3 of one zone, and the reading
\* 1 of a zone two hours further behind UTC, whose instant is 3 and whose
\* string sorts before those of the readings 2 and 3
Stamps == {<<1, 0>>, <<2, 0>>, <<3, 0>>, <<1, 2>>}
\* the cutoffs drawn, as instants: the operator may enter a makeup cutoff
\* before the due date
DueDates == 1..2
MakeupDueDates == 1..3

\* the date strings of the events that the scan passes over: one inside every
\* window, one that sorts first and is after due_date
SubmissionStamps == {<<1, 0>>, <<1, 2>>}

AssessmentPoints == {100}
ManualPoints == {<<"q1", 5>>, <<"q1", 8>>, <<"q2", 5>>}

Event(name, d, q, p) ==
    [event_name |-> name, date_iso8601 |-> d, qid |-> q, points |-> p]

Events ==
    {Event(ScoreAssessment, d, "", p) : d \in Stamps, p \in AssessmentPoints}
    \cup {Event(ManualGrading, d, m[1], m[2]) : d \in Stamps, m \in ManualPoints}
    \cup {Event(Submission, d, "q1", 0) : d \in SubmissionStamps}

EventLogs == UNION {[1..n -> Events] : n \in 0..MaxLen}

\* the events of per-question scoring: a submission of q1, and a score of q1
\* given by the student's own action or by a member of staff
Actors == {"student", "staff"}

ScoreQuestionEvent(d, q, p, actor) ==
    [event_name |-> ScoreQuestion, date_iso8601 |-> d, qid |-> q, points |-> p,
     auth_user_uid |-> actor]

QuestionEvents ==
    {Event(Submission, d, "q1", 0) : d \in Stamps}
    \cup {ScoreQuestionEvent(d, "q1", 8, a) : d \in Stamps, a \in Actors}

QuestionEventLogs == UNION {[1..n -> QuestionEvents] : n \in 0..MaxLen}

Question(name, max_points, max_manual_points) ==
    [question_name |-> name,
     assessment_question_max_points |-> max_points,
     assessment_question_max_manual_points |-> max_manual_points]

\* q1 is graded manually; q2 is not, and still has manual grading events
QuestionLists == {<<Question("q1", 8, 8), Question("q2", 100, 0)>>}

(***************************************************************************)
(* The parts a specification leaves at rest.                               *)
(***************************************************************************)
ApiIdle ==
    /\ api_pc = "idle" /\ endpoint = "" /\ retry_max = 0
    /\ retry_cnt = 0 /\ api_trace = <<>> /\ api_ret = None /\ api_err = ""

ScanIdle ==
    /\ questions = <<>> /\ logs = <<>> /\ due_date = 0 /\ makeup_due_date = 0
    /\ scan_pc = "idle" /\ scan_ret = None

HwIdle ==
    /\ assmt_instances = <<>> /\ future = <<>> /\ results = <<>>
    /\ done_cnt = 0 /\ done_order = <<>> /\ hw_pc = "idle" /\ hw_log = <<>>

\* the threads of a run: the main thread, which is the coordinator of
\* fetch_hw_grade, and one worker per student, named by the student's uid
MainThread == 0

NoCall == [endpoint |-> "", retry_cnt |-> 0]

AssmtIdle ==
    /\ assmts = <<>> /\ name2id = <<>> /\ assmt_pc = "idle"
    /\ assmt_input = None /\ assmt_ret = None

RunIdle ==
    /\ grade_pc = "idle" /\ access_rules = <<>> /\ call = NoCall /\ worker = <<>>
    /\ issued = {} /\ pl_writers = {} /\ run_err = ""

(***************************************************************************)
(* api_request.  api_trace is the history of one call: every GET with the  *)
(* status and body of its response, and every time.sleep with its seconds. *)
(***************************************************************************)
Endpoints ==
    {"/assessments", "/assessments/id", "/assessment_access_rules",
     "/assessment_instances", "/instance_questions", "/log", "/gradebook"}

Statuses == {200, 401, 404, 500, 502}

\* response.text of the responses drawn, and json.loads of each
Bodies == {"[]", "[{\"type\": \"Homework\"}]"}
JsonLoads(text) ==
    IF text = "[]" THEN <<>> ELSE <<[type |-> "Homework"]>>

Get(status, text) == [op |-> "GET", status |-> status, text |-> text, secs |-> 0]
Sleep(secs) == [op |-> "sleep", status |-> 0, text |-> "", secs |-> secs]

\* a slip: every server error is retried
IsBadGateway_AnyServerError(status) == status >= 500

\* elif response.status_code == 502
IsBadGateway(status) == status = 502

\* a slip: one retry too many
RetriesExhausted_OffByOne(cnt, max) == cnt > max

\* if retry_cnt >= retry_max
RetriesExhausted(cnt, max) == cnt >= max

\* response.status_code == 200: break, then return json.loads(response.text)
ApiOk ==
    /\ api_pc = "loop"
    /\ \E text \in Bodies :
          /\ api_trace' = Append(api_trace, Get(200, text))
          /\ api_ret' = Some(JsonLoads(text))
    /\ api_pc' = "returned"
    /\ UNCHANGED <<endpoint, retry_max, retry_cnt, api_err>>
    /\ UNCHANGED <<assmt_vars, scan_vars, hw_vars, run_vars>>

\* response.status_code == 502: count it, then raise or sleep and go round
ApiBadGateway ==
    /\ api_pc = "loop"
    /\ \E status \in Statuses \ {200}, text \in Bodies :
          /\ IsBadGateway(status)
          /\ retry_cnt' = retry_cnt + 1
          /\ IF RetriesExhausted(retry_cnt + 1, retry_max)
             THEN /\ api_trace' = Append(api_trace, Get(status, text))
                  /\ api_pc' = "raised"
                  /\ api_err' = "Maximum number of retries reached"
             ELSE /\ api_trace' = api_trace \o <<Get(status, text), Sleep(RetryDelay)>>
                  /\ api_pc' = "loop"
                  /\ api_err' = api_err
    /\ UNCHANGED <<endpoint, retry_max, api_ret>>
    /\ UNCHANGED <<assmt_vars, scan_vars, hw_vars, run_vars>>

\* any other status: raise
ApiInvalidStatus ==
    /\ api_pc = "loop"
    /\ \E status \in Statuses \ {200}, text \in Bodies :
          /\ ~IsBadGateway(status)
          /\ api_trace' = Append(api_trace, Get(status, text))
    /\ api_pc' = "raised"
    /\ api_err' = "Invalid status returned"
    /\ UNCHANGED <<endpoint, retry_max, retry_cnt, api_ret>>
    /\ UNCHANGED <<assmt_vars, scan_vars, hw_vars, run_vars>>

\* a call api_request(endpoint, retry_max) at the top of its loop
InitApi ==
    /\ ScanIdle /\ HwIdle /\ RunIdle /\ AssmtIdle
    /\ api_pc = "loop"
    /\ endpoint \in Endpoints
    /\ retry_max \in 1..DefaultRetryMax
    /\ retry_cnt = 0
    /\ api_trace = <<>>
    /\ api_ret = None
    /\ api_err = ""

NextApi == ApiOk \/ ApiBadGateway \/ ApiInvalidStatus

SpecApi == InitApi /\ [][NextApi]_vars

(***************************************************************************)
(* SpecScan: scan_hw_log on every drawn log, question list and cutoffs.    *)
(***************************************************************************)
InitScan ==
    /\ ApiIdle /\ HwIdle /\ RunIdle /\ AssmtIdle
    /\ questions \in QuestionLists
    /\ logs \in EventLogs
    /\ due_date \in DueDates
    /\ makeup_due_date \in MakeupDueDates
    /\ scan_pc = "called"
    /\ scan_ret = None

ScanReturn ==
    /\ scan_pc = "called"
    /\ scan_ret' = Some(ScanHwLog(questions, logs, due_date, makeup_due_date))
    /\ scan_pc' = "returned"
    /\ UNCHANGED <<questions, logs, due_date, makeup_due_date>>
    /\ UNCHANGED <<assmt_vars, api_vars, hw_vars, run_vars>>

NextScan == ScanReturn

SpecScan == InitScan /\ [][NextScan]_vars

\* scan_hw_log on the logs of per-question scoring
InitScanQ ==
    /\ ApiIdle /\ HwIdle /\ RunIdle /\ AssmtIdle
    /\ questions \in QuestionLists
    /\ logs \in QuestionEventLogs
    /\ due_date \in DueDates
    /\ makeup_due_date \in MakeupDueDates
    /\ scan_pc = "called"
    /\ scan_ret = None

SpecScanQ == InitScanQ /\ [][NextScan]_vars

(***************************************************************************)
(* fetch_hw_grade from the submission of the tasks on.  future[uid] is the *)
(* task of one student: "unsubmitted", "pending" (submitted), "finished"   *)
(* (scan_hw_log returned or raised) and "yielded" (handed out by           *)
(* as_completed and handled by the collection loop).                       *)
(***************************************************************************)
\* event logs of students: none, on time, late, a zero on time and a score
\* late, manual points lowered after due_date, a late zero
SampleLogs ==
    {<<>>,
     <<Event(ScoreAssessment, <<1, 0>>, "", 100)>>,
     <<Event(ScoreAssessment, <<2, 0>>, "", 100)>>,
     <<Event(ManualGrading, <<1, 0>>, "q1", 5),
       Event(ScoreAssessment, <<2, 0>>, "", 100)>>,
     <<Event(ManualGrading, <<1, 0>>, "q1", 8),
       Event(ManualGrading, <<2, 0>>, "q1", 5)>>,
     <<Event(ManualGrading, <<2, 0>>, "q1", 5)>>}

\* the cutoffs after verify_time: the operator may enter either
HwCutoffs == 1..2

\* what makes a task raise: api_request (retries exhausted, invalid status)
\* or a missing field of an event
TaskErrors == {"Maximum number of retries reached", "KeyError"}

Unsubmitted == [state |-> "unsubmitted", ok |-> FALSE, value |-> None, error |-> ""]
Pending == [state |-> "pending", ok |-> FALSE, value |-> None, error |-> ""]
FinishedOk(rec) == [state |-> "finished", ok |-> TRUE, value |-> Some(rec), error |-> ""]
FinishedRaised(e) == [state |-> "finished", ok |-> FALSE, value |-> None, error |-> e]

\* bool(x) of an optional number
Truthy(x) == x # None /\ x[1] # 0

\* final_points, doubled: the average of a and b is kept as a + b
FinalPointsX2(orig_score, makeup_score) ==
    IF Truthy(orig_score) /\ Truthy(makeup_score)
    THEN orig_score[1] + makeup_score[1]
    ELSE IF Truthy(orig_score) THEN 2 * orig_score[1]
    ELSE IF Truthy(makeup_score) THEN makeup_score[1]
    ELSE 0

\* a slip: the progress count taken for the student
ResultRecord_CountAsUid(uid, rec) ==
    [uid |-> done_cnt + 1,
     points_x2 |-> FinalPointsX2(rec.orig_score, rec.makeup_score),
     orig_points |-> rec.orig_score,
     orig_date |-> rec.orig_date,
     makeup_points |-> rec.makeup_score,
     makeup_date |-> rec.makeup_date,
     total_points |-> rec.total_points]

\* results[uid]
ResultRecord(uid, rec) ==
    [uid |-> uid,
     points_x2 |-> FinalPointsX2(rec.orig_score, rec.makeup_score),
     orig_points |-> rec.orig_score,
     orig_date |-> rec.orig_date,
     makeup_points |-> rec.makeup_score,
     makeup_date |-> rec.makeup_date,
     total_points |-> rec.total_points]

\* a slip: the exception of result() is not caught
PcAfterException_Propagates == "raised"

\* except Exception: log the error and continue with the next future
PcAfterException == "collect"

Uids == DOMAIN assmt_instances
InState(st) == {u \in Uids : future[u].state = st}

\* executor.submit(self.scan_hw_log, instance_id, due_date, makeup_due_date),
\* in the order of assmt_instances.items()
Submit ==
    /\ hw_pc = "submit"
    /\ InState("unsubmitted") # {}
    /\ LET uid == CHOOSE u \in InState("unsubmitted") :
                      \A v \in InState("unsubmitted") : u <= v
       IN  future' = [future EXCEPT ![uid] = Pending]
    /\ UNCHANGED <<assmt_instances, results, done_cnt, done_order, hw_pc, hw_log>>
    /\ UNCHANGED <<assmt_vars, api_vars, scan_vars, run_vars>>

\* the submission loop is over: for future in as_completed(future_to_uid)
StartCollect ==
    /\ hw_pc = "submit"
    /\ InState("unsubmitted") = {}
    /\ hw_pc' = "collect"
    /\ UNCHANGED <<assmt_instances, future, results, done_cnt, done_order, hw_log>>
    /\ UNCHANGED <<assmt_vars, api_vars, scan_vars, run_vars>>

\* a worker runs scan_hw_log for one student to its return
TaskReturns(uid) ==
    /\ future[uid].state = "pending"
    /\ \E qs \in QuestionLists, ls \in SampleLogs :
          future' = [future EXCEPT ![uid] =
              FinishedOk(ScanHwLog(qs, ls, due_date, makeup_due_date))]
    /\ UNCHANGED <<assmt_instances, results, done_cnt, done_order, hw_pc, hw_log>>
    /\ UNCHANGED <<assmt_vars, api_vars, scan_vars, run_vars>>

\* a worker's scan_hw_log raises
TaskRaises(uid) ==
    /\ future[uid].state = "pending"
    /\ \E e \in TaskErrors : future' = [future EXCEPT ![uid] = FinishedRaised(e)]
    /\ UNCHANGED <<assmt_instances, results, done_cnt, done_order, hw_pc, hw_log>>
    /\ UNCHANGED <<assmt_vars, api_vars, scan_vars, run_vars>>

\* one round of the collection loop on a future whose result() returns
CollectResult(uid) ==
    /\ hw_pc = "collect"
    /\ future[uid].state = "finished" /\ future[uid].ok
    /\ done_cnt' = done_cnt + 1
    /\ done_order' = Append(done_order, uid)
    /\ results' = DictSet(results, uid, ResultRecord(uid, future[uid].value[1]))
    /\ future' = [future EXCEPT ![uid].state = "yielded"]
    /\ UNCHANGED <<assmt_instances, hw_pc, hw_log>>
    /\ UNCHANGED <<assmt_vars, api_vars, scan_vars, run_vars>>

\* a slip: done_cnt advanced after the try, so that the continue skips it
CollectException_NoCount(uid) ==
    /\ hw_pc = "collect"
    /\ future[uid].state = "finished" /\ ~future[uid].ok
    /\ done_order' = Append(done_order, uid)
    /\ hw_log' = Append(hw_log, [uid |-> uid, error |-> future[uid].error])
    /\ pl_writers' = pl_writers \cup {MainThread}
    /\ future' = [future EXCEPT ![uid].state = "yielded"]
    /\ hw_pc' = PcAfterException
    /\ UNCHANGED <<assmt_instances, results, done_cnt>>
    /\ UNCHANGED <<assmt_vars, api_vars, scan_vars, grade_pc, access_rules, call, worker, issued,
                   run_err>>

\* one round of the collection loop on a future whose result() raises
CollectException(uid) ==
    /\ hw_pc = "collect"
    /\ future[uid].state = "finished" /\ ~future[uid].ok
    /\ done_cnt' = done_cnt + 1
    /\ done_order' = Append(done_order, uid)
    /\ hw_log' = Append(hw_log, [uid |-> uid, error |-> future[uid].error])
    /\ pl_writers' = pl_writers \cup {MainThread}
    /\ future' = [future EXCEPT ![uid].state = "yielded"]
    /\ hw_pc' = PcAfterException
    /\ UNCHANGED <<assmt_instances, results>>
    /\ UNCHANGED <<assmt_vars, api_vars, scan_vars, grade_pc, access_rules, call, worker, issued,
                   run_err>>

\* as_completed is exhausted, the executor shuts down: return results
Return ==
    /\ hw_pc = "collect"
    /\ \A u \in Uids : future[u].state = "yielded"
    /\ hw_pc' = "returned"
    /\ UNCHANGED <<assmt_instances, future, results, done_cnt, done_order, hw_log>>
    /\ UNCHANGED <<assmt_vars, api_vars, scan_vars, run_vars>>

\* after get_assmt_instances: results = {}, done_cnt = 0
Init ==
    /\ ApiIdle /\ RunIdle /\ AssmtIdle
    /\ questions = <<>> /\ logs = <<>> /\ scan_pc = "idle" /\ scan_ret = None
    /\ due_date \in HwCutoffs
    /\ makeup_due_date \in HwCutoffs
    /\ assmt_instances \in {[u \in 1..n |-> 100 + u] : n \in 0..MaxStudents}
    /\ future = [u \in DOMAIN assmt_instances |-> Unsubmitted]
    /\ results = <<>>
    /\ done_cnt = 0
    /\ done_order = <<>>
    /\ hw_pc = "submit"
    /\ hw_log = <<>>

Next ==
    \/ Submit
    \/ StartCollect
    \/ \E uid \in Uids : TaskReturns(uid)
    \/ \E uid \in Uids : TaskRaises(uid)
    \/ \E uid \in Uids : CollectResult(uid)
    \/ \E uid \in Uids : CollectException(uid)
    \/ Return

Spec == Init /\ [][Next]_vars

(***************************************************************************)
(* A whole run of fetch_grade: the main thread resolves the assessment,    *)
(* its due date and its instances, one api_request after the other, then   *)
(* fans out; every worker runs scan_hw_log with its two api_requests.      *)
(* call is the api_request the main thread is in and worker[uid] the one   *)
(* the worker of uid is in, each with its retry_cnt; a step of a thread is *)
(* one GET together with the handling of its response.  issued is the set  *)
(* of endpoints a GET was sent to, pl_writers the set of threads that have *)
(* written to the logger "pl".                                             *)
(***************************************************************************)
\* one round of the loop of api_request(endpoint) on a response
ApiRound(cnt, status) ==
    IF status = 200 THEN [pc |-> "returned", retry_cnt |-> cnt, err |-> ""]
    ELSE IF IsBadGateway(status)
    THEN IF RetriesExhausted(cnt + 1, DefaultRetryMax)
         THEN [pc |-> "raised", retry_cnt |-> cnt + 1,
               err |-> "Maximum number of retries reached"]
         ELSE [pc |-> "loop", retry_cnt |-> cnt + 1, err |-> ""]
    ELSE [pc |-> "raised", retry_cnt |-> cnt, err |-> "Invalid status returned"]

Call(ep) == [endpoint |-> ep, retry_cnt |-> 0]

\* assmt_info["type"] of the responses drawn
AssmtTypes == {"Homework", "Exam", "Quiz"}

\* the access rules of the responses drawn: none, rules that do not count,
\* one that counts, two that count with the later end_date first
AccessRule(mode, credit, end_date) ==
    [mode |-> mode, credit |-> credit, end_date |-> end_date]

AccessRuleLists ==
    {<<>>,
     <<AccessRule("Exam", 100, <<2, 0>>), AccessRule("Public", 50, <<2, 0>>)>>,
     <<AccessRule("Public", 50, <<2, 0>>), AccessRule("Public", 100, <<1, 0>>)>>,
     <<AccessRule("Public", 100, <<2, 0>>), AccessRule("Public", 100, <<1, 0>>)>>}

\* the list that max() is applied to
FullCreditEnds(rules) ==
    {FromIsoformat(rules[i].end_date) : i \in {j \in 1..Len(rules) :
        rules[j].mode = "Public" /\ rules[j].credit = 100}}

\* a slip: a default where max() of an empty list raises
DueDateOf_Default(rules) ==
    IF FullCreditEnds(rules) = {} THEN Some(0)
    ELSE Some(CHOOSE x \in FullCreditEnds(rules) :
                  \A y \in FullCreditEnds(rules) : y <= x)

\* due_date = max([...]), None where max() raises ValueError
DueDateOf(rules) ==
    IF FullCreditEnds(rules) = {} THEN None
    ELSE Some(CHOOSE x \in FullCreditEnds(rules) :
                  \A y \in FullCreditEnds(rules) : y <= x)

\* timedelta(days=7, minutes=1), in the unit of the model's instants
MakeupExtension == 1
\* the times the operator enters instead of "Y"
OperatorTimes == {1}

\* the logs the workers of a run fetch
RunLogs ==
    {<<Event(ScoreAssessment, <<1, 0>>, "", 100)>>,
     <<Event(ScoreAssessment, <<2, 0>>, "", 100)>>}

\* the gradebook of the responses drawn: a student with the assessment and,
\* in the second one, a student without it
AssmtId == 7
GradebookEntry(uid, assessments) == [user_uid |-> uid, assessments |-> assessments]
Gradebooks ==
    {<<GradebookEntry(1, <<[assessment_id |-> AssmtId, score_perc |-> 90]>>)>>,
     <<GradebookEntry(1, <<[assessment_id |-> AssmtId, score_perc |-> 90]>>),
       GradebookEntry(2, <<>>)>>}

\* [q["score_perc"] for q in student["assessments"] if ...]
ScorePercs(student, assmt_id) ==
    SelectSeq(student.assessments, LAMBDA q : q.assessment_id = assmt_id)

\* an exception leaves fetch_grade, through fetch_hw_grade when it is in it
Propagate(err) ==
    /\ grade_pc' = "raised"
    /\ hw_pc' = IF grade_pc = "hw" THEN "raised" ELSE hw_pc
    /\ run_err' = err
    /\ call' = NoCall

\* the main thread's GET is answered 502 and api_request goes round
MainRetry ==
    /\ call # NoCall
    /\ \E status \in Statuses \ {200} :
          LET r == ApiRound(call.retry_cnt, status)
          IN  /\ r.pc = "loop"
              /\ call' = [call EXCEPT !.retry_cnt = r.retry_cnt]
    /\ issued' = issued \cup {call.endpoint}
    /\ pl_writers' = pl_writers \cup {MainThread}
    /\ UNCHANGED <<grade_pc, hw_pc, run_err, worker, access_rules>>
    /\ UNCHANGED <<assmt_vars, api_vars, scan_vars>>
    /\ UNCHANGED <<assmt_instances, future, results, done_cnt, done_order, hw_log>>

\* the main thread's api_request raises: nothing catches it
MainRaises ==
    /\ call # NoCall
    /\ \E status \in Statuses \ {200} :
          LET r == ApiRound(call.retry_cnt, status)
          IN  /\ r.pc = "raised"
              /\ Propagate(r.err)
    /\ issued' = issued \cup {call.endpoint}
    /\ pl_writers' = pl_writers \cup {MainThread}
    /\ UNCHANGED <<worker, access_rules>>
    /\ UNCHANGED <<assmt_vars, api_vars, scan_vars>>
    /\ UNCHANGED <<assmt_instances, future, results, done_cnt, done_order, hw_log>>

\* fetch_grade: the assessment info comes in
InfoOk ==
    /\ grade_pc = "info" /\ call.endpoint = "/assessments/id"
    /\ ApiRound(call.retry_cnt, 200).pc = "returned"
    /\ \E type \in AssmtTypes :
          IF type = "Homework"
          THEN /\ grade_pc' = "hw" /\ hw_pc' = "rules"
               /\ call' = Call("/assessment_access_rules")
               /\ run_err' = run_err
          ELSE IF type = "Exam"
          THEN /\ grade_pc' = "exam" /\ hw_pc' = hw_pc
               /\ call' = Call("/gradebook")
               /\ run_err' = run_err
          ELSE Propagate("Unknown assessment type")
    /\ issued' = issued \cup {call.endpoint}
    /\ pl_writers' = pl_writers \cup {MainThread}
    /\ UNCHANGED <<worker, access_rules>>
    /\ UNCHANGED <<assmt_vars, api_vars, scan_vars>>
    /\ UNCHANGED <<assmt_instances, future, results, done_cnt, done_order, hw_log>>

\* fetch_hw_grade: the access rules come in, due_date = max([...])
RulesOk ==
    /\ grade_pc = "hw" /\ hw_pc = "rules"
    /\ ApiRound(call.retry_cnt, 200).pc = "returned"
    /\ \E rules \in AccessRuleLists :
          /\ access_rules' = rules
          /\ IF DueDateOf(rules) = None
             THEN /\ Propagate("ValueError")
                  /\ UNCHANGED <<due_date>>
             ELSE /\ due_date' = DueDateOf(rules)[1]
                  /\ hw_pc' = "verify"
                  /\ call' = NoCall
                  /\ UNCHANGED <<grade_pc, run_err>>
    /\ issued' = issued \cup {call.endpoint}
    /\ pl_writers' = pl_writers \cup {MainThread}
    /\ UNCHANGED <<worker>>
    /\ UNCHANGED <<assmt_vars, api_vars, questions, logs, makeup_due_date, scan_pc, scan_ret>>
    /\ UNCHANGED <<assmt_instances, future, results, done_cnt, done_order, hw_log>>

\* the two verify_time prompts, each answered "Y" or with a time, then
\* get_assmt_instances starts its request
VerifyTimes ==
    /\ grade_pc = "hw" /\ hw_pc = "verify"
    /\ \E due \in {due_date} \cup OperatorTimes :
          /\ due_date' = due
          /\ makeup_due_date' \in {due + MakeupExtension} \cup OperatorTimes
    /\ hw_pc' = "instances"
    /\ call' = Call("/assessment_instances")
    /\ UNCHANGED <<grade_pc, access_rules, worker, issued, pl_writers, run_err>>
    /\ UNCHANGED <<assmt_vars, api_vars, questions, logs, scan_pc, scan_ret>>
    /\ UNCHANGED <<assmt_instances, future, results, done_cnt, done_order, hw_log>>

\* a worker before its first request
WorkerStart == [endpoint |-> "/instance_questions", retry_cnt |-> 0, questions |-> <<>>]
WorkerDone == [endpoint |-> "", retry_cnt |-> 0, questions |-> <<>>]

\* get_assmt_instances returns uid2id; results = {}, done_cnt = 0
InstancesOk ==
    /\ grade_pc = "hw" /\ hw_pc = "instances"
    /\ ApiRound(call.retry_cnt, 200).pc = "returned"
    /\ \E n \in 0..MaxWorkers :
          /\ assmt_instances' = [u \in 1..n |-> 100 + u]
          /\ future' = [u \in 1..n |-> Unsubmitted]
          /\ worker' = [u \in 1..n |-> WorkerStart]
    /\ results' = <<>>
    /\ done_cnt' = 0
    /\ hw_pc' = "submit"
    /\ call' = NoCall
    /\ issued' = issued \cup {call.endpoint}
    /\ pl_writers' = pl_writers \cup {MainThread}
    /\ UNCHANGED <<grade_pc, access_rules, run_err, done_order, hw_log>>
    /\ UNCHANGED <<assmt_vars, api_vars, scan_vars>>

\* fetch_exam_grade: the gradebook comes in; [...][0] raises IndexError for a
\* student without the assessment
ExamOk ==
    /\ grade_pc = "exam"
    /\ ApiRound(call.retry_cnt, 200).pc = "returned"
    /\ \E gradebook \in Gradebooks :
          IF \E i \in 1..Len(gradebook) : ScorePercs(gradebook[i], AssmtId) = <<>>
          THEN /\ Propagate("IndexError")
               /\ UNCHANGED <<results>>
          ELSE /\ results' = [uid \in {gradebook[i].user_uid : i \in 1..Len(gradebook)} |->
                     LET student == CHOOSE st \in {gradebook[i] : i \in 1..Len(gradebook)} :
                                        st.user_uid = uid
                     IN  [uid |-> uid, score_perc |-> ScorePercs(student, AssmtId)[1]]]
               /\ grade_pc' = "returned"
               /\ call' = NoCall
               /\ UNCHANGED <<hw_pc, run_err>>
    /\ issued' = issued \cup {call.endpoint}
    /\ pl_writers' = pl_writers \cup {MainThread}
    /\ UNCHANGED <<worker, access_rules>>
    /\ UNCHANGED <<assmt_vars, api_vars, scan_vars>>
    /\ UNCHANGED <<assmt_instances, future, done_cnt, done_order, hw_log>>

\* a worker's GET is answered 502 and api_request goes round
WorkerRetry(uid) ==
    /\ future[uid].state = "pending" /\ worker[uid] # WorkerDone
    /\ \E status \in Statuses \ {200} :
          LET r == ApiRound(worker[uid].retry_cnt, status)
          IN  /\ r.pc = "loop"
              /\ worker' = [worker EXCEPT ![uid].retry_cnt = r.retry_cnt]
    /\ issued' = issued \cup {worker[uid].endpoint}
    /\ pl_writers' = pl_writers \cup {uid}
    /\ UNCHANGED <<grade_pc, access_rules, call, run_err>>
    /\ UNCHANGED <<assmt_vars, api_vars, scan_vars, hw_vars>>

\* a worker's api_request raises, and scan_hw_log with it
WorkerRaises(uid) ==
    /\ future[uid].state = "pending" /\ worker[uid] # WorkerDone
    /\ \E status \in Statuses \ {200} :
          LET r == ApiRound(worker[uid].retry_cnt, status)
          IN  /\ r.pc = "raised"
              /\ future' = [future EXCEPT ![uid] = FinishedRaised(r.err)]
    /\ worker' = [worker EXCEPT ![uid] = WorkerDone]
    /\ issued' = issued \cup {worker[uid].endpoint}
    /\ pl_writers' = pl_writers \cup {uid}
    /\ UNCHANGED <<grade_pc, access_rules, call, run_err>>
    /\ UNCHANGED <<assmt_vars, api_vars, scan_vars>>
    /\ UNCHANGED <<assmt_instances, results, done_cnt, done_order, hw_pc, hw_log>>

\* a worker's instance questions come in; it starts the request of the log
WorkerQuestionsOk(uid) ==
    /\ future[uid].state = "pending"
    /\ worker[uid].endpoint = "/instance_questions"
    /\ ApiRound(worker[uid].retry_cnt, 200).pc = "returned"
    /\ \E qs \in QuestionLists :
          worker' = [worker EXCEPT ![uid] =
              [endpoint |-> "/log", retry_cnt |-> 0, questions |-> qs]]
    /\ issued' = issued \cup {worker[uid].endpoint}
    /\ pl_writers' = pl_writers \cup {uid}
    /\ UNCHANGED <<grade_pc, access_rules, call, run_err>>
    /\ UNCHANGED <<assmt_vars, api_vars, scan_vars, hw_vars>>

\* a worker's log comes in; the scan runs to its return
WorkerLogOk(uid) ==
    /\ future[uid].state = "pending"
    /\ worker[uid].endpoint = "/log"
    /\ ApiRound(worker[uid].retry_cnt, 200).pc = "returned"
    /\ \E ls \in RunLogs :
          future' = [future EXCEPT ![uid] = FinishedOk(
              ScanHwLog(worker[uid].questions, ls, due_date, makeup_due_date))]
    /\ worker' = [worker EXCEPT ![uid] = WorkerDone]
    /\ issued' = issued \cup {worker[uid].endpoint}
    /\ pl_writers' = pl_writers \cup {uid}
    /\ UNCHANGED <<grade_pc, access_rules, call, run_err>>
    /\ UNCHANGED <<assmt_vars, api_vars, scan_vars>>
    /\ UNCHANGED <<assmt_instances, results, done_cnt, done_order, hw_pc, hw_log>>

\* a worker's log comes in with an event that lacks a field: KeyError
WorkerLogMalformed(uid) ==
    /\ future[uid].state = "pending"
    /\ worker[uid].endpoint = "/log"
    /\ ApiRound(worker[uid].retry_cnt, 200).pc = "returned"
    /\ future' = [future EXCEPT ![uid] = FinishedRaised("KeyError")]
    /\ worker' = [worker EXCEPT ![uid] = WorkerDone]
    /\ issued' = issued \cup {worker[uid].endpoint}
    /\ pl_writers' = pl_writers \cup {uid}
    /\ UNCHANGED <<grade_pc, access_rules, call, run_err>>
    /\ UNCHANGED <<assmt_vars, api_vars, scan_vars>>
    /\ UNCHANGED <<assmt_instances, results, done_cnt, done_order, hw_pc, hw_log>>

\* return self.fetch_hw_grade(assmt_id)
GradeReturn ==
    /\ grade_pc = "hw" /\ hw_pc = "returned"
    /\ grade_pc' = "returned"
    /\ UNCHANGED <<access_rules, call, worker, issued, pl_writers, run_err>>
    /\ UNCHANGED <<assmt_vars, api_vars, scan_vars, hw_vars>>

\* fetch_grade(assmt_id) is called
InitRun ==
    /\ ApiIdle /\ ScanIdle /\ HwIdle /\ AssmtIdle
    /\ grade_pc = "info"
    /\ access_rules = <<>>
    /\ call = Call("/assessments/id")
    /\ worker = <<>>
    /\ issued = {}
    /\ pl_writers = {}
    /\ run_err = ""

MainStep ==
    \/ MainRetry
    \/ MainRaises
    \/ InfoOk
    \/ RulesOk
    \/ VerifyTimes
    \/ InstancesOk
    \/ ExamOk
    \/ Submit
    \/ StartCollect
    \/ \E uid \in Uids : CollectResult(uid)
    \/ \E uid \in Uids : CollectException(uid)
    \/ Return
    \/ GradeReturn

WorkerStep(uid) ==
    \/ WorkerRetry(uid)
    \/ WorkerRaises(uid)
    \/ WorkerQuestionsOk(uid)
    \/ WorkerLogOk(uid)
    \/ WorkerLogMalformed(uid)

NextRun == MainStep \/ \E uid \in Uids : WorkerStep(uid)

SpecRun == InitRun /\ [][NextRun]_vars

\* every GET is answered and every thread that can run does
FairRun ==
    /\ SpecRun
    /\ WF_vars(MainStep)
    /\ \A uid \in 1..MaxWorkers : WF_vars(uid \in Uids /\ WorkerStep(uid))

(***************************************************************************)
(* get_assmt from the listing on: name2id is built, then the operator is   *)
(* asked for a name or an id until the entry is a key of name2id.          *)
(***************************************************************************)
\* str() of the ids drawn
Str(id) == [i \in 0..9 |-> <<"0", "1", "2", "3", "4", "5", "6", "7", "8", "9">>[i + 1]][id]

AssmtIds == 1..(MaxAssmts + 1)
\* assessment names: labels, one of them a number
AssmtNames == {"HW1", "HW2", "2"}

Assmt(id, name) == [assessment_id |-> id, assessment_name |-> name]

\* the listings drawn: the ids are distinct, the names need not be
AssmtListings ==
    {l \in UNION {[1..n -> {Assmt(id, name) : id \in AssmtIds, name \in AssmtNames}] :
                      n \in 0..MaxAssmts} :
        \A i, j \in 1..Len(l) : i # j => l[i].assessment_id # l[j].assessment_id}

\* what the operator types
Selectors == AssmtNames \cup {Str(id) : id \in AssmtIds} \cup {"HW9"}

\* a slip: the id is not made a key
Name2IdEntry_NameOnly(d, assmt) ==
    DictSet(d, assmt.assessment_name, assmt.assessment_id)

\* one round of the loop over assmts: name2id[str(name)] = id, then
\* name2id[str(id)] = id; the names drawn are strings, str() leaves them
Name2IdEntry(d, assmt) ==
    DictSet(DictSet(d, assmt.assessment_name, assmt.assessment_id),
            Str(assmt.assessment_id), assmt.assessment_id)

RECURSIVE Name2IdFrom(_, _)
Name2IdFrom(d, l) ==
    IF l = <<>> THEN d ELSE Name2IdFrom(Name2IdEntry(d, Head(l)), Tail(l))

\* the loop over the listing
BuildName2Id ==
    /\ assmt_pc = "listed"
    /\ name2id' = Name2IdFrom(<<>>, assmts)
    /\ assmt_pc' = "input"
    /\ UNCHANGED <<assmts, assmt_input, assmt_ret>>
    /\ UNCHANGED <<api_vars, scan_vars, hw_vars, run_vars>>

\* an entry that is not a key: "Invalid assessment name or id", ask again
EnterInvalid ==
    /\ assmt_pc = "input"
    /\ \E id \in Selectors :
          /\ id \notin DOMAIN name2id
          /\ assmt_input' = Some(id)
    /\ UNCHANGED <<assmts, name2id, assmt_pc, assmt_ret>>
    /\ UNCHANGED <<api_vars, scan_vars, hw_vars, run_vars>>

\* an entry that is a key: break, return name2id[id]
EnterValid ==
    /\ assmt_pc = "input"
    /\ \E id \in Selectors :
          /\ id \in DOMAIN name2id
          /\ assmt_input' = Some(id)
          /\ assmt_ret' = Some(name2id[id])
    /\ assmt_pc' = "returned"
    /\ UNCHANGED <<assmts, name2id>>
    /\ UNCHANGED <<api_vars, scan_vars, hw_vars, run_vars>>

\* get_assmt with its listing fetched
InitAssmt ==
    /\ ApiIdle /\ ScanIdle /\ HwIdle /\ RunIdle
    /\ assmts \in AssmtListings
    /\ name2id = <<>>
    /\ assmt_pc = "listed"
    /\ assmt_input = None
    /\ assmt_ret = None

NextAssmt == BuildName2Id \/ EnterInvalid \/ EnterValid

SpecAssmt == InitAssmt /\ [][NextAssmt]_vars

(***************************************************************************)
(* Claims about the blend of the two scores and the collection loop.       *)
(***************************************************************************)
\* C1: a student with no orig_score and a makeup_score gets makeup_score
\* itself as final points (here doubled).
C1_MakeupOnlyFullCredit ==
    \A u \in DOMAIN results :
        (results[u].orig_points = None /\ results[u].makeup_points # None)
            => results[u].points_x2 = 2 * results[u].makeup_points[1]

\* C2: a student with both scores, 0 and negative scores included, gets
\* their average as final points (here doubled: their sum).
C2_BothPresentAverage ==
    \A u \in DOMAIN results :
        (results[u].orig_points # None /\ results[u].makeup_points # None)
            => results[u].points_x2 =
                   results[u].orig_points[1] + results[u].makeup_points[1]

\* C3: per-student failure isolation. Whatever tasks raise, the collection
\* loop never stops on an exception, it can return once every future is
\* handled, and the returned map holds exactly the students whose task
\* returned, each with the record made from that student's own scan.
C3_FailureIsolation ==
    /\ hw_pc \in {"submit", "collect", "returned"}
    /\ (hw_pc = "collect" /\ \A u \in Uids : future[u].state = "yielded")
          => ENABLED Return
    /\ hw_pc = "returned" =>
          /\ DOMAIN results = {u \in Uids : future[u].ok}
          /\ \A u \in DOMAIN results :
                results[u] = ResultRecord(u, future[u].value[1])
          /\ {hw_log[i].uid : i \in 1..Len(hw_log)} = {u \in Uids : ~future[u].ok}

\* a batch that returned with a student left out and a student kept
C3_Witness ==
    /\ hw_pc = "returned"
    /\ \E u, v \in Uids : ~future[u].ok /\ future[v].ok /\ v \in DOMAIN results
    /\ Len(hw_log) > 0

\* the map that the outcomes of the tasks determine, whatever their order
MapOfOutcomes ==
    [u \in {v \in Uids : future[v].ok} |->
        LET rec == future[u].value[1]
        IN  [uid |-> u,
             points_x2 |-> FinalPointsX2(rec.orig_score, rec.makeup_score),
             orig_points |-> rec.orig_score,
             orig_date |-> rec.orig_date,
             makeup_points |-> rec.makeup_score,
             makeup_date |-> rec.makeup_date,
             total_points |-> rec.total_points]]

\* C17: completion-order independence. The returned map is the map of the
\* tasks' outcomes, the same for every order in which as_completed yields
\* the futures; the order shows only in the order of insertion, which is the
\* order of completion of the tasks that returned.
C17_OrderIndependence ==
    hw_pc = "returned" =>
        /\ results = MapOfOutcomes
        /\ {done_order[i] : i \in 1..Len(done_order)} = Uids
        /\ Len(done_order) = Cardinality(Uids)

\* the task submitted last was collected first, and the two records differ
C17_Witness ==
    /\ hw_pc = "returned" /\ Len(done_order) >= 2
    /\ done_order[1] = Len(done_order)
    /\ {done_order[1], done_order[2]} \subseteq DOMAIN results
    /\ results[done_order[1]].points_x2 # results[done_order[2]].points_x2

(***************************************************************************)
(* Claims about api_request.                                               *)
(***************************************************************************)
Gets == {i \in 1..Len(api_trace) : api_trace[i].op = "GET"}
BadGateways == {i \in Gets : api_trace[i].status = 502}

\* C4: bounded retry. A call issues at most retry_max GETs; every GET but
\* the first follows a 502 response and one sleep of the fixed delay, and
\* nothing else is slept; the call raises exactly when the retry_max-th 502
\* has come in.
C4_BoundedRetry ==
    /\ Cardinality(Gets) <= retry_max
    /\ \A i \in Gets : i > 1 =>
          /\ i >= 3
          /\ api_trace[i - 1] = Sleep(RetryDelay)
          /\ api_trace[i - 2].op = "GET" /\ api_trace[i - 2].status = 502
    /\ \A i \in 1..Len(api_trace) : api_trace[i].op = "sleep" =>
          /\ api_trace[i].secs = RetryDelay
          /\ i > 1 /\ (i - 1) \in BadGateways
    /\ Cardinality(BadGateways) = retry_max
          <=> (api_pc = "raised" /\ api_err = "Maximum number of retries reached")

\* retries exhausted after at least three GETs and two delays
C4_Witness ==
    /\ api_pc = "raised" /\ api_err = "Maximum number of retries reached"
    /\ retry_max >= 3
    /\ Cardinality(Gets) = retry_max

\* C5: non-retryable status. A response that is neither 200 nor 502 is the
\* last thing of the call, which raises on it, however many 502 came before;
\* a 200 response is the last thing of the call, which returns the parsed
\* body of that response.
C5_NonRetryableStatus ==
    \A i \in Gets :
        /\ api_trace[i].status \notin {200, 502} =>
              /\ i = Len(api_trace)
              /\ api_pc = "raised" /\ api_err = "Invalid status returned"
              /\ api_ret = None
        /\ api_trace[i].status = 200 =>
              /\ i = Len(api_trace)
              /\ api_pc = "returned"
              /\ api_ret = Some(JsonLoads(api_trace[i].text))

\* an invalid status after two 502 retries
C5_Witness ==
    /\ api_pc = "raised" /\ api_err = "Invalid status returned"
    /\ Cardinality(BadGateways) >= 2
    /\ api_trace[Len(api_trace)].status \notin {200, 502}

(***************************************************************************)
(* What the claims about scan_hw_log speak of: the events in the order the *)
(* scan replays them (L below), and the normalized total at each of them,  *)
(* taken from the log itself and not from the replay.                      *)
(***************************************************************************)
Replayed == SortLogs(logs)
Returned == scan_pc = "returned"
Ret == scan_ret[1]

IsScoring(e) == e.event_name \in {ScoreAssessment, ManualGrading}
EventTime(L, i) == FromIsoformat(L[i].date_iso8601)

\* the scoring events at or before a cutoff
ScoringUpTo(L, cutoff) ==
    {i \in 1..Len(L) : IsScoring(L[i]) /\ EventTime(L, i) <= cutoff}

MaxOf(S) == CHOOSE x \in S : \A y \in S : y <= x

\* the points of the last assessment score at or before event i, 0 with none
RECURSIVE RunningTotal(_, _)
RunningTotal(L, i) ==
    IF i = 0 THEN 0
    ELSE IF L[i].event_name = ScoreAssessment THEN L[i].points
    ELSE RunningTotal(L, i - 1)

\* the manual points of question q at or before event i, 0 with none
RECURSIVE RunningManual(_, _, _)
RunningManual(L, i, q) ==
    IF i = 0 THEN 0
    ELSE IF L[i].event_name = ManualGrading /\ L[i].qid = q THEN L[i].points
    ELSE RunningManual(L, i - 1, q)

\* the questions with a manual grading somewhere in the log; any other
\* question has manual points 0 throughout
QuestionNames(L) ==
    {L[i].qid : i \in {j \in 1..Len(L) : L[j].event_name = ManualGrading}}

RECURSIVE SumManual(_, _, _)
SumManual(L, i, qs) ==
    IF qs = {} THEN 0
    ELSE LET q == CHOOSE x \in qs : TRUE
         IN  RunningManual(L, i, q) + SumManual(L, i, qs \ {q})

\* the normalized total at event i
Normalized(L, i) ==
    LET qs == QuestionNames(L)
    IN  RunningTotal(L, i) - SumManual(L, i, qs) + SumManual(L, Len(L), qs)

WindowMax(L, cutoff) ==
    IF ScoringUpTo(L, cutoff) = {} THEN None
    ELSE Some(MaxOf({Normalized(L, i) : i \in ScoringUpTo(L, cutoff)}))

\* C6: Policy A monotonicity. With due_date <= makeup_due_date, a returned
\* record that has both scores has makeup_score >= orig_score, and one that
\* has orig_score has makeup_score too.
C6_PolicyAMonotone ==
    (Returned /\ due_date <= makeup_due_date) =>
        /\ Ret.orig_score # None => Ret.makeup_score # None
        /\ (Ret.orig_score # None /\ Ret.makeup_score # None)
              => Ret.makeup_score[1] >= Ret.orig_score[1]

C6_Witness ==
    /\ Returned /\ due_date < makeup_due_date
    /\ Ret.orig_score # None /\ Ret.makeup_score # None
    /\ Ret.makeup_score[1] > Ret.orig_score[1]

\* the log of the concrete Policy A scenario: an assessment score of 100 and
\* manual points 5 for q1 at one timestamp t1 <= due_date, manual points 8 for
\* q1 at t2 with due_date < t2 <= makeup_due_date, in that source order, q1
\* the one manually graded question
C7_Scenario ==
    /\ Returned
    /\ ManualQuestions(questions) = {"q1"}
    /\ Len(logs) = 3
    /\ logs[1].event_name = ScoreAssessment /\ logs[1].points = 100
    /\ logs[2] = Event(ManualGrading, logs[1].date_iso8601, "q1", 5)
    /\ logs[3].event_name = ManualGrading /\ logs[3].qid = "q1"
    /\ logs[3].points = 8
    /\ FromIsoformat(logs[1].date_iso8601) <= due_date
    /\ due_date < FromIsoformat(logs[3].date_iso8601)
    /\ FromIsoformat(logs[3].date_iso8601) <= makeup_due_date

C7_Both(score) ==
    /\ Ret.orig_score = Some(score)
    /\ Ret.orig_date = Some(FromIsoformat(logs[1].date_iso8601))
    /\ Ret.makeup_score = Some(score)

\* C7 as stated: in the scenario the scan returns orig_score = 103 with
\* orig_date = t1 and makeup_score = 103.
C7_Original == C7_Scenario => C7_Both(103)

\* C7 amended: in the scenario the scan returns orig_score = makeup_score =
\* 108 with orig_date = makeup_date = t1 when the date string of t1 sorts
\* before that of t2: the assessment score is replayed before any manual
\* points of q1 are on record, so its normalized total is 100 - 0 + 8, and the
\* later totals, 103 and 100, do not exceed it. When the string of t2 sorts
\* first (a zone further behind UTC), the 8 points are replayed first, the
\* final manual points are 5, and both scores are 100 - 5 + 5 = 100 at t1.
C7_ScenarioScores ==
    C7_Scenario =>
        /\ Ret.makeup_date = Ret.orig_date
        /\ IF DateKeyLeq(logs[1].date_iso8601, logs[3].date_iso8601)
           THEN C7_Both(108)
           ELSE C7_Both(100)

C7_Witness ==
    /\ C7_Scenario
    /\ DateKeyLeq(logs[1].date_iso8601, logs[3].date_iso8601)
    /\ Ret.orig_score = Some(108)

\* C8: window maximum. Each returned score is the maximum, over the scoring
\* events at or before its cutoff, of the normalized total: the running
\* assessment total, minus the running manual points, plus the manual points
\* each question has at the end of the whole log; absent with no such event.
C8_WindowMaximum ==
    Returned =>
        LET L == Replayed
        IN  /\ Ret.orig_score = WindowMax(L, due_date)
            /\ Ret.makeup_score = WindowMax(L, makeup_due_date)

\* a manual grading after both cutoffs sets the final points of its question,
\* and a window's maximum is reached before the window's last scoring event
C8_Witness ==
    /\ Returned /\ due_date < makeup_due_date
    /\ LET L == Replayed
       IN  /\ \E i \in 1..Len(L) :
                 /\ L[i].event_name = ManualGrading
                 /\ EventTime(L, i) > makeup_due_date
                 /\ RunningManual(L, Len(L), L[i].qid) = L[i].points
                 /\ RunningManual(L, i - 1, L[i].qid) # L[i].points
           /\ ScoringUpTo(L, due_date) # {}
           /\ Ret.makeup_score # None
           /\ Normalized(L, MaxOf(ScoringUpTo(L, makeup_due_date)))
                 < Ret.makeup_score[1]

\* C9: boundary inclusion. A scoring event at due_date exactly counts for
\* orig_score and one at makeup_due_date exactly for makeup_score; a scoring
\* event one instant after due_date never sets orig_score or orig_date, and
\* counts for makeup_score when it is at or before makeup_due_date.
C9_BoundaryInclusion ==
    Returned =>
        LET L == Replayed
        IN  \A i \in 1..Len(L) : IsScoring(L[i]) =>
            /\ EventTime(L, i) = due_date =>
                  Ret.orig_score # None /\ Ret.orig_score[1] >= Normalized(L, i)
            /\ EventTime(L, i) = makeup_due_date =>
                  Ret.makeup_score # None
                      /\ Ret.makeup_score[1] >= Normalized(L, i)
            /\ EventTime(L, i) = due_date + 1 =>
                  /\ Ret.orig_date # Some(EventTime(L, i))
                  /\ ScoringUpTo(L, due_date) = {} => Ret.orig_score = None
                  /\ EventTime(L, i) <= makeup_due_date =>
                        Ret.makeup_score # None
                            /\ Ret.makeup_score[1] >= Normalized(L, i)

\* the best event of the log is one instant late for the original window and
\* exactly at the makeup cutoff
C9_Witness ==
    /\ Returned /\ makeup_due_date = due_date + 1
    /\ LET L == Replayed
       IN  \E i, j \in 1..Len(L) :
              /\ IsScoring(L[i]) /\ IsScoring(L[j])
              /\ EventTime(L, i) = due_date /\ EventTime(L, j) = due_date + 1
              /\ Normalized(L, j) > Normalized(L, i)
              /\ Ret.orig_score = Some(Normalized(L, i))
              /\ Ret.makeup_score = Some(Normalized(L, j))

\* C10: absent versus zero. A window's score and date are None exactly when
\* the log has no scoring event at or before the window's cutoff.
C10_AbsentIffNoEvent ==
    Returned =>
        LET L == Replayed
        IN  /\ Ret.orig_score = None <=> ScoringUpTo(L, due_date) = {}
            /\ Ret.orig_date = None <=> ScoringUpTo(L, due_date) = {}
            /\ Ret.makeup_score = None <=> ScoringUpTo(L, makeup_due_date) = {}
            /\ Ret.makeup_date = None <=> ScoringUpTo(L, makeup_due_date) = {}

\* a log with an event of another kind inside the original window and its
\* scoring events after due_date: no original score, a makeup score of 0
C10_Witness ==
    /\ Returned
    /\ \E i \in 1..Len(logs) :
          logs[i].event_name = Submission
              /\ FromIsoformat(logs[i].date_iso8601) <= due_date
    /\ Ret.orig_score = None /\ Ret.orig_date = None
    /\ Ret.makeup_score = Some(0)

(***************************************************************************)
(* Claims about a whole run.                                               *)
(***************************************************************************)
\* C11: termination and progress of fetch_hw_grade. With every GET answered
\* and every thread running when it can, a fan-out that has started ends in
\* the return of fetch_hw_grade, whatever tasks succeed, retry or fail;
\* done_cnt counts the futures handled so far, each once, failed ones too,
\* and is len(assmt_instances) at the return.
C11_TerminationProgress ==
    /\ [](done_cnt = Cardinality(InState("yielded")))
    /\ [](Len(done_order) = Cardinality({done_order[i] : i \in 1..Len(done_order)}))
    /\ [](hw_pc = "returned" => done_cnt = Cardinality(DOMAIN assmt_instances))
    /\ (hw_pc = "submit") ~> (hw_pc = "returned")

\* a returned batch with a task that failed on its retries and one that
\* returned a record
C11_Witness ==
    /\ hw_pc = "returned" /\ done_cnt >= 2
    /\ \E u, v \in Uids :
          /\ future[u].error = "Maximum number of retries reached"
          /\ future[v].ok
    /\ done_cnt = Cardinality(DOMAIN assmt_instances)

WorkerEndpoints == {"/instance_questions", "/log"}

\* no task submitted, no request of a worker sent
NothingFannedOut ==
    /\ \A u \in DOMAIN future : future[u].state = "unsubmitted"
    /\ issued \cap WorkerEndpoints = {}
    /\ done_cnt = 0

\* C12: resolution before fan-out. A run that has raised out of fetch_grade
\* (the assessment info, the access rules or the instance listing could not
\* be fetched, the type is neither Homework nor Exam, or no access rule is
\* Public with credit 100) has submitted no task and sent no
\* instance-questions or log request, and does nothing more; a run that has
\* passed the access rules has a Public rule with credit 100, and one that
\* has submitted a task or sent a worker's request has fetched all three
\* resources and has not raised.
C12_ResolutionBeforeFanOut ==
    /\ [](grade_pc = "raised" =>
             /\ NothingFannedOut
             /\ hw_pc \in {"idle", "raised"}
             /\ run_err # "")
    /\ [][grade_pc # "raised"]_vars
    /\ [](hw_pc \in {"verify", "instances", "submit", "collect", "returned"}
             => FullCreditEnds(access_rules) # {})
    /\ [](~NothingFannedOut =>
             /\ {"/assessments/id", "/assessment_access_rules",
                 "/assessment_instances"} \subseteq issued
             /\ grade_pc \in {"hw", "returned"}
             /\ run_err = "")

\* the latest failure of the resolution: the instance listing is given up
\* after its retries, with the due dates already confirmed
C12_Witness ==
    /\ grade_pc = "raised" /\ hw_pc = "raised"
    /\ "/assessment_instances" \in issued
    /\ run_err = "Maximum number of retries reached"
    /\ NothingFannedOut

\* what a step of the worker of u leaves alone: everything of the main
\* thread and of the other workers
WorkerFrame(u) ==
    /\ UNCHANGED <<results, done_cnt, done_order, hw_log, hw_pc, grade_pc, call>>
    /\ UNCHANGED <<assmt_instances, access_rules, due_date, makeup_due_date, run_err>>
    /\ \A v \in Uids \ {u} : future'[v] = future[v] /\ worker'[v] = worker[v]

\* results and done_cnt are written by a round of the collection loop only
\* (or by fetch_exam_grade, without workers), a round handles one future,
\* and a record once written stays as it is
MergeByCoordinator ==
    /\ (results' # results \/ done_cnt' # done_cnt) =>
          \/ \E u \in Uids : CollectResult(u) \/ CollectException(u)
          \/ ExamOk
    /\ done_cnt' \in {done_cnt, done_cnt + 1}
    /\ Cardinality((DOMAIN results') \ (DOMAIN results)) <= 1 \/ ExamOk
    /\ \A u \in DOMAIN results : u \in DOMAIN results' /\ results'[u] = results[u]

\* C15 as stated: single-writer merge, and a worker writes nothing that the
\* coordinator or another worker writes, the log of logger "pl" included.
C15_Original ==
    [][/\ MergeByCoordinator
       /\ \A u \in Uids : WorkerStep(u) =>
              WorkerFrame(u) /\ pl_writers' = pl_writers]_vars

\* C15 amended: in every interleaving results and done_cnt are written by
\* the coordinating thread only, one completed task at a time, and no record
\* is lost or overwritten; a step of a worker changes its own future and its
\* own request and nothing else of the main thread or of another worker,
\* except that it writes to the log of logger "pl", which the other workers
\* and the coordinator write to as well.
C15_SingleWriterMerge ==
    [][/\ MergeByCoordinator
       /\ \A u \in Uids : WorkerStep(u) =>
              WorkerFrame(u) /\ pl_writers' = pl_writers \cup {u}]_vars

\* two workers and the coordinator have written to the log, the later
\* submitted task was collected first, and both records are in the map
C15_Witness ==
    /\ hw_pc = "returned"
    /\ {1, 2} \subseteq DOMAIN results
    /\ {MainThread, 1, 2} \subseteq pl_writers
    /\ done_order[1] = 2

(***************************************************************************)
(* Claims about get_assmt.                                                 *)
(***************************************************************************)
\* the assessments of the listing that carry the string as name or as id
Carriers(id) ==
    {i \in 1..Len(assmts) :
        assmts[i].assessment_name = id \/ Str(assmts[i].assessment_id) = id}

\* a rejected entry matches no name and no id, an accepted one matches
EntriesJudged ==
    /\ (assmt_pc = "input" /\ assmt_input # None) => Carriers(assmt_input[1]) = {}
    /\ assmt_pc = "returned" => Carriers(assmt_input[1]) # {}

\* C16 as stated: entering the name or the stringified id of any assessment
\* of the listing returns that assessment's own id, and a selector matching
\* no name and no id is never accepted.
C16_Original ==
    /\ EntriesJudged
    /\ assmt_pc = "returned" =>
          \A i \in Carriers(assmt_input[1]) : assmt_ret = Some(assmts[i].assessment_id)

\* C16 amended: an entry that is the name or the stringified id of an
\* assessment of the listing is accepted and returns the id of the last
\* assessment of the listing that carries it as name or as stringified id;
\* that is the own id of every assessment carrying it when only one does. A
\* selector matching no name and no id is never accepted.
C16_AssmtResolution ==
    /\ EntriesJudged
    /\ assmt_pc = "returned" =>
          /\ assmt_ret = Some(assmts[MaxOf(Carriers(assmt_input[1]))].assessment_id)
          /\ Cardinality(Carriers(assmt_input[1])) = 1 =>
                \A i \in Carriers(assmt_input[1]) :
                    assmt_ret = Some(assmts[i].assessment_id)

\* a returned call on a listing of two, where the entry is the stringified
\* id of the first assessment only and not its name
C16_Witness ==
    /\ assmt_pc = "returned" /\ Len(assmts) = 2
    /\ Carriers(assmt_input[1]) = {1}
    /\ assmt_input[1] = Str(assmts[1].assessment_id)
    /\ assmt_input[1] # assmts[1].assessment_name
    /\ assmt_ret = Some(assmts[1].assessment_id)

(***************************************************************************)
(* Further claims about scan_hw_log.                                       *)
(***************************************************************************)
\* the latest Submission of question q replayed before event i, 0 with none
RECURSIVE LastSubmission(_, _, _)
LastSubmission(L, i, q) ==
    IF i = 0 THEN 0
    ELSE IF L[i].event_name = Submission /\ L[i].qid = q THEN i
    ELSE LastSubmission(L, i - 1, q)

\* C13: Policy B reattribution. A ScoreQuestion event whose actor is not the
\* student counts at the time of the latest earlier Submission of its
\* question: when that Submission is at or before due_date, the scan returns
\* an orig_score that includes the event's points, whatever the event's own
\* time; with no earlier Submission of the question the scan does not return
\* but raises.
C13_PolicyBReattribution ==
    scan_pc # "called" =>
        LET L == Replayed
        IN  \A i \in 1..Len(L) :
               (L[i].event_name = ScoreQuestion /\ L[i].auth_user_uid # "student")
               => LET j == LastSubmission(L, i - 1, L[i].qid)
                  IN  IF j = 0 THEN scan_pc = "raised"
                      ELSE EventTime(L, j) <= due_date =>
                               /\ scan_pc = "returned"
                               /\ Ret.orig_score # None
                               /\ Ret.orig_score[1] >= L[i].points

\* the stable sort of a log by the instants of its events
RECURSIVE InsertByTime(_, _)
InsertByTime(sorted, e) ==
    IF sorted = <<>> THEN <<e>>
    ELSE IF FromIsoformat(Head(sorted).date_iso8601) <= FromIsoformat(e.date_iso8601)
         THEN <<Head(sorted)>> \o InsertByTime(Tail(sorted), e)
         ELSE <<e>> \o sorted

RECURSIVE SortByTimeFrom(_, _)
SortByTimeFrom(sorted, rest) ==
    IF rest = <<>> THEN sorted
    ELSE SortByTimeFrom(InsertByTime(sorted, Head(rest)), Tail(rest))

SortByTime(ls) == SortByTimeFrom(<<>>, ls)

\* C14: sorting before scanning. The scan replays the events in
\* non-decreasing order of their timestamps, events of one timestamp in the
\* order of the fetched log, and the record of a log is the record of its
\* stable timestamp-sorted version.
C14_SortedByTimestamp ==
    Returned =>
        LET L == Replayed
        IN  /\ \A i, j \in 1..Len(L) : i < j => EventTime(L, i) <= EventTime(L, j)
            /\ L = SortByTime(logs)
            /\ Ret = ScanHwLog(questions, SortByTime(logs), due_date, makeup_due_date)

MinOf(S) == CHOOSE x \in S : \A y \in S : x <= y

\* the scoring events at or before a cutoff whose normalized total is score
Achieving(L, cutoff, score) ==
    {i \in ScoringUpTo(L, cutoff) : Normalized(L, i) = score}

\* C18: achieving timestamp. A window's date is the timestamp of the first
\* event, in the order of replay, at or before the window's cutoff whose
\* normalized total is the window's score; a later event of the window with
\* the same total does not replace it.
C18_AchievingTimestamp ==
    Returned =>
        LET L == Replayed
        IN  /\ Ret.orig_score # None =>
                  LET A == Achieving(L, due_date, Ret.orig_score[1])
                  IN  A # {} /\ Ret.orig_date = Some(EventTime(L, MinOf(A)))
            /\ Ret.makeup_score # None =>
                  LET A == Achieving(L, makeup_due_date, Ret.makeup_score[1])
                  IN  A # {} /\ Ret.makeup_date = Some(EventTime(L, MinOf(A)))

\* the makeup window's maximum is reached twice, at different timestamps,
\* and the date is that of the first
C18_Witness ==
    /\ Returned /\ Ret.makeup_score # None
    /\ LET L == Replayed
           A == Achieving(L, makeup_due_date, Ret.makeup_score[1])
       IN  /\ \E i, j \in A : i < j /\ EventTime(L, i) < EventTime(L, j)
           /\ Ret.makeup_date = Some(EventTime(L, MinOf(A)))

\* the log without its i-th event
RemoveAt(ls, i) == SubSeq(ls, 1, i - 1) \o SubSeq(ls, i + 1, Len(ls))

SameWindows(a, b) ==
    /\ a.orig_score = b.orig_score /\ a.orig_date = b.orig_date
    /\ a.makeup_score = b.makeup_score /\ a.makeup_date = b.makeup_date

\* C19: late score events do not leak. With due_date <= makeup_due_date,
\* the scan of a log returns the same two scores and dates as the scan of
\* the log without one of its ScoreAssessment events later than
\* makeup_due_date, or without one of its events of another kind than
\* ScoreAssessment and ManualGradingResult; so among the late events only a
\* ManualGradingResult can change them.
C19_LateEventsDoNotLeak ==
    (Returned /\ due_date <= makeup_due_date) =>
        \A i \in 1..Len(logs) :
            (\/ /\ logs[i].event_name = ScoreAssessment
                /\ FromIsoformat(logs[i].date_iso8601) > makeup_due_date
             \/ ~IsScoring(logs[i]))
            => SameWindows(Ret, ScanHwLog(questions, RemoveAt(logs, i),
                                          due_date, makeup_due_date))

====
